---- MODULE Spec2Model ----
(***************************************************************************)
(* Model of memory_game1.py: a two-player memory game played on a grid of  *)
(* paired cards.  The state is the game_data dictionary built by           *)
(* init_game, the two locals guess1/guess2 of play, the position of play   *)
(* in its loop (pc), the last message the program printed in answer to an  *)
(* input (out), and the call of prepare_board that built the board (call). *)
(*                                                                         *)
(* The source plays on a 4 x 4 grid with the 16 cards A,A,..,H,H.  All     *)
(* 16!/2^8 shuffles of that deck are out of reach of explicit-state        *)
(* checking, so the grid is scaled down: rows and columns below are        *)
(* smaller than in the source and the deck is the first rows*columns       *)
(* entries of the source's list (one pair of each letter).                 *)
(***************************************************************************)
EXTENDS Integers, Sequences, FiniteSets, TLC

VARIABLES board, score, turn, game_over, move_history, pc, guess1, guess2, out,
          call

vars == <<board, score, turn, game_over, move_history, pc, guess1, guess2, out,
          call>>

(***************************************************************************)
(* Size of the grid and bound of the model                                 *)
(***************************************************************************)
\* rows, columns of init_game, scaled down from 4, 4 to 2, 2
rows == 2

columns == 2

\* play() loops for ever on mismatches; the model stops accepting a first
\* pick once this many turns are recorded in move_history
MaxTurns == 3

(***************************************************************************)
(* init_game / prepare_board                                               *)
(***************************************************************************)
Alphabet == <<"A", "B", "C", "D", "E", "F", "G", "H">>

\* the list ['A','A','B','B',...] of init_game, cut to the size of the grid
cards == [i \in 1..(rows * columns) |-> Alphabet[(i + 1) \div 2]]

Positions == (0..(rows - 1)) \X (0..(columns - 1))

\* random.shuffle(cards): any rearrangement of the list
Shuffles(c) == {[i \in 1..Len(c) |-> c[p[i]]] : p \in Permutations(1..Len(c))}

\* prepare_board with index computed as row + col
prepare_board_no_columns(r, c, cs) ==
    [p \in (0..(r - 1)) \X (0..(c - 1)) |->
        [card |-> cs[p[1] + p[2] + 1], flipped |-> FALSE, matched |-> FALSE]]

\* prepare_board laying the cards face up
prepare_board_face_up(r, c, cs) ==
    [p \in (0..(r - 1)) \X (0..(c - 1)) |->
        [card |-> cs[p[1] * c + p[2] + 1], flipped |-> TRUE, matched |-> FALSE]]

\* the nested loops of prepare_board: index runs row-major over the grid
prepare_board(r, c, cs) ==
    [p \in (0..(r - 1)) \X (0..(c - 1)) |->
        [card |-> cs[p[1] * c + p[2] + 1], flipped |-> FALSE, matched |-> FALSE]]

Players == {"player1", "player2"}

\* value of guess1/guess2 before get_valid_card has returned for the first time
NoGuess == <<>>

MsgNone == "none"
MsgAccepted == "accepted"
MsgRevealed == "Card already revealed. Choose another card."
MsgInvalid == "Invalid input. Try again."
MsgIntegers == "Invalid input. Please enter integers."
MsgMatch == "Match found!"
MsgNoMatch == "No match."

Init ==
    /\ \E cs \in Shuffles(cards) : board = prepare_board(rows, columns, cs)
    /\ score = [p \in Players |-> 0]
    /\ turn = "player1"
    /\ game_over = FALSE
    /\ move_history = <<>>
    /\ pc = "guess1"
    /\ guess1 = NoGuess
    /\ guess2 = NoGuess
    /\ out = MsgNone
    /\ call = [rows |-> rows, columns |-> columns, cards |-> cards,
               status |-> "returned"]

(***************************************************************************)
(* get_valid_card                                                          *)
(***************************************************************************)
Numerals == <<"1", "2", "3", "4", "5", "6", "7", "8", "9">>

MaxDim == IF rows > columns THEN rows ELSE columns

\* the lines a player may type: every 1-based number from one below to one
\* above the grid, and a line that is no integer
InputLines == {"0", "x"} \cup {Numerals[i] : i \in 1..(MaxDim + 1)}

\* the lines int() accepts, with their values
IntLines == {"0"} \cup {Numerals[i] : i \in 1..Len(Numerals)}

IntValue ==
    [s \in IntLines |->
        IF s = "0" THEN 0 ELSE CHOOSE i \in 1..Len(Numerals) : Numerals[i] = s]

\* int(s) succeeds
IsInt(s) == s \in IntLines

\* int(s) when it succeeds
int(s) == IntValue[s]

\* the bounds test of get_valid_card on the 0-based row and col
InRange(row, col) == (0 <= row /\ row < rows) /\ (0 <= col /\ col < columns)

\* what a pass that prints msg and asks again leaves behind
AskAgain(b, msg) == [returned |-> FALSE, ret |-> NoGuess, board |-> b, out |-> msg]

\* lines 106-107: the card is turned face up and its position returned
Return(b, pos) ==
    [returned |-> TRUE, ret |-> pos, board |-> [b EXCEPT ![pos].flipped = TRUE],
     out |-> MsgAccepted]

\* get_valid_card without the test of line 105: a face-up card is accepted
get_valid_card_any(b, rline, cline) ==
    IF ~IsInt(rline) \/ ~IsInt(cline)
    THEN AskAgain(b, MsgIntegers)
    ELSE LET row == int(rline) - 1
             col == int(cline) - 1
         IN IF InRange(row, col)
            THEN Return(b, <<row, col>>)
            ELSE AskAgain(b, MsgInvalid)

\* get_valid_card without line 106: the position is returned, the card is
\* not turned
get_valid_card_no_flip(b, rline, cline) ==
    IF ~IsInt(rline) \/ ~IsInt(cline)
    THEN AskAgain(b, MsgIntegers)
    ELSE LET row == int(rline) - 1
             col == int(cline) - 1
         IN IF InRange(row, col)
            THEN IF ~b[<<row, col>>].flipped
                 THEN [returned |-> TRUE, ret |-> <<row, col>>, board |-> b,
                       out |-> MsgAccepted]
                 ELSE AskAgain(b, MsgRevealed)
            ELSE AskAgain(b, MsgInvalid)

\* get_valid_card reading a line that is no integer as 1
get_valid_card_default(b, rline, cline) ==
    LET row == (IF IsInt(rline) THEN int(rline) ELSE 1) - 1
        col == (IF IsInt(cline) THEN int(cline) ELSE 1) - 1
    IN IF InRange(row, col)
       THEN IF ~b[<<row, col>>].flipped
            THEN Return(b, <<row, col>>)
            ELSE AskAgain(b, MsgRevealed)
       ELSE AskAgain(b, MsgInvalid)

\* One pass through the body of the while loop of get_valid_card on the two
\* lines typed.  ret is the returned position when the pass returns; when it
\* does not return the loop asks again.  The column is only read when the
\* row was an integer.
get_valid_card(b, rline, cline) ==
    IF ~IsInt(rline) \/ ~IsInt(cline)
    THEN AskAgain(b, MsgIntegers)
    ELSE LET row == int(rline) - 1
             col == int(cline) - 1
         IN IF InRange(row, col)
            THEN IF ~b[<<row, col>>].flipped
                 THEN Return(b, <<row, col>>)
                 ELSE AskAgain(b, MsgRevealed)
            ELSE AskAgain(b, MsgInvalid)

(***************************************************************************)
(* match, update_score, flip_back_cards, check_game_over                   *)
(***************************************************************************)
\* match with line 132 left out: only the first card is marked
match_first_only(b, g1, g2) ==
    IF b[g1].card = b[g2].card
    THEN [ret |-> TRUE, board |-> [b EXCEPT ![g1].matched = TRUE]]
    ELSE [ret |-> FALSE, board |-> b]

\* match without line 133: the cards are marked, the result is not True
match_no_return(b, g1, g2) ==
    IF b[g1].card = b[g2].card
    THEN [ret |-> FALSE, board |-> [b EXCEPT ![g1].matched = TRUE, ![g2].matched = TRUE]]
    ELSE [ret |-> FALSE, board |-> b]

match(b, g1, g2) ==
    IF b[g1].card = b[g2].card
    THEN [ret |-> TRUE, board |-> [b EXCEPT ![g1].matched = TRUE, ![g2].matched = TRUE]]
    ELSE [ret |-> FALSE, board |-> b]

\* update_score adding 2 for a match
update_score_twice(s, current_player) == [s EXCEPT ![current_player] = @ + 2]

\* update_score with -= for +=
update_score_minus(s, current_player) == [s EXCEPT ![current_player] = @ - 1]

update_score(s, current_player) == [s EXCEPT ![current_player] = @ + 1]

\* flip_back_cards with line 156 left out
flip_back_cards_first_only(b, g1, g2) == [b EXCEPT ![g1].flipped = FALSE]

flip_back_cards(b, g1, g2) == [b EXCEPT ![g1].flipped = FALSE, ![g2].flipped = FALSE]

\* check_game_over with lines 171-172 indented into the loop: the flag is
\* set as soon as the first card of the board is found matched
check_game_over_first(b, over) ==
    IF ~b[<<0, 0>>].matched THEN over ELSE TRUE

\* check_game_over without line 171: the flag is never set
check_game_over_never(b, over) == over

\* the value of game_data['game_over'] after check_game_over
check_game_over(b, over) ==
    IF \E p \in DOMAIN b : ~b[p].matched THEN over ELSE TRUE

\* a loop that never tests game_over
while_cond_true(over) == TRUE

\* the condition of the while loop of play
while_cond(over) == ~over

\* line 72 with the two names exchanged: the turn stays where it is
other_player_same(t) == IF t = "player2" THEN "player2" ELSE "player1"

\* line 72 of play
other_player(t) == IF t = "player2" THEN "player1" ELSE "player2"

(***************************************************************************)
(* play                                                                    *)
(***************************************************************************)
\* an append per card flipped instead of one per turn
record_flips(h, g1, g2) == Append(Append(h, g1), g2)

\* line 68 of play
record_move(h, g1, g2) == Append(h, <<g1, g2>>)

AwaitingPick == pc \in {"guess1", "guess2"}

\* One answer to the prompts of get_valid_card, at either pick of play.
Pick(rline, cline) ==
    /\ AwaitingPick
    /\ LET res == get_valid_card(board, rline, cline)
       IN /\ board' = res.board
          /\ out' = res.out
          /\ IF res.returned
             THEN /\ pc = "guess1" => Len(move_history) < MaxTurns
                  /\ guess1' = IF pc = "guess1" THEN res.ret ELSE guess1
                  /\ guess2' = IF pc = "guess2" THEN res.ret ELSE guess2
                  /\ pc' = IF pc = "guess1" THEN "guess2" ELSE "resolve"
             ELSE UNCHANGED <<pc, guess1, guess2>>
    /\ UNCHANGED <<score, turn, game_over, move_history, call>>

\* int() raised ValueError on the row or on the column
InputNotInteger ==
    \E rline, cline \in InputLines :
        /\ ~IsInt(rline) \/ ~IsInt(cline)
        /\ Pick(rline, cline)

\* two integers, not both inside the grid
InputOutOfRange ==
    \E rline, cline \in InputLines :
        /\ IsInt(rline) /\ IsInt(cline)
        /\ ~InRange(int(rline) - 1, int(cline) - 1)
        /\ Pick(rline, cline)

\* a position of the grid whose card is face up
CardAlreadyRevealed ==
    \E rline, cline \in InputLines :
        /\ IsInt(rline) /\ IsInt(cline)
        /\ InRange(int(rline) - 1, int(cline) - 1)
        /\ board[<<int(rline) - 1, int(cline) - 1>>].flipped
        /\ Pick(rline, cline)

\* a position of the grid whose card is face down
CardAccepted ==
    \E rline, cline \in InputLines :
        /\ IsInt(rline) /\ IsInt(cline)
        /\ InRange(int(rline) - 1, int(cline) - 1)
        /\ ~board[<<int(rline) - 1, int(cline) - 1>>].flipped
        /\ Pick(rline, cline)

\* Lines 61-72 of play, after both picks: match / update_score or
\* flip_back_cards, the append to move_history, check_game_over, the change
\* of turn and the test of the while loop.
Resolve ==
    /\ pc = "resolve"
    /\ LET m == match(board, guess1, guess2)
           b2 == IF m.ret THEN m.board ELSE flip_back_cards(m.board, guess1, guess2)
           over == check_game_over(b2, game_over)
       IN /\ board' = b2
          /\ score' = IF m.ret THEN update_score(score, turn) ELSE score
          /\ out' = IF m.ret THEN MsgMatch ELSE MsgNoMatch
          /\ move_history' = record_move(move_history, guess1, guess2)
          /\ game_over' = over
          /\ turn' = IF ~over THEN other_player(turn) ELSE turn
          /\ pc' = IF while_cond(over) THEN "guess1" ELSE "done"
    /\ UNCHANGED <<guess1, guess2, call>>

\* the two cards carry the same value
ResolveMatch == pc = "resolve" /\ match(board, guess1, guess2).ret /\ Resolve

\* the two cards carry different values
ResolveNoMatch == pc = "resolve" /\ ~match(board, guess1, guess2).ret /\ Resolve

Next ==
    \/ InputNotInteger
    \/ InputOutOfRange
    \/ CardAlreadyRevealed
    \/ CardAccepted
    \/ ResolveMatch
    \/ ResolveNoMatch

Spec == Init /\ [][Next]_vars

(***************************************************************************)
(* prepare_board on arguments other than those of init_game                *)
(***************************************************************************)
\* largest number of rows and of columns prepare_board is called with
MaxBuildDim == 3

\* longest list of cards prepare_board is called with
MaxBuildCards == 6

\* the first n entries of the list A, A, B, B, ...
Deck(n) == [i \in 1..n |-> Alphabet[(i + 1) \div 2]]

\* the board of a call that has not returned one
NoBoard == <<>>

\* a call prepare_board(r, c, Deck(n)) is about to run
InitBuild ==
    /\ \E r, c \in 1..MaxBuildDim, n \in 0..MaxBuildCards :
          call = [rows |-> r, columns |-> c, cards |-> Deck(n), status |-> "called"]
    /\ board = NoBoard
    /\ score = [p \in Players |-> 0]
    /\ turn = "player1"
    /\ game_over = FALSE
    /\ move_history = <<>>
    /\ pc = "prepare_board"
    /\ guess1 = NoGuess
    /\ guess2 = NoGuess
    /\ out = MsgNone

\* cards[index] of line 43 is reached with index = len(cards)
IndexOutOfRange(r, c, cs) == r * c > Len(cs)

\* the list has a card for every cell: the loops run to the end and the
\* board is returned, whatever the parity of rows*columns and however many
\* cards are left over
PrepareBoardReturns ==
    /\ pc = "prepare_board"
    /\ ~IndexOutOfRange(call.rows, call.columns, call.cards)
    /\ \E cs \in Shuffles(call.cards) :
          board' = prepare_board(call.rows, call.columns, cs)
    /\ call' = [call EXCEPT !.status = "returned"]
    /\ pc' = "built"
    /\ UNCHANGED <<score, turn, game_over, move_history, guess1, guess2, out>>

\* the list is shorter than the grid: line 43 raises IndexError and no
\* board is returned
PrepareBoardIndexError ==
    /\ pc = "prepare_board"
    /\ IndexOutOfRange(call.rows, call.columns, call.cards)
    /\ call' = [call EXCEPT !.status = "IndexError"]
    /\ pc' = "failed"
    /\ UNCHANGED <<board, score, turn, game_over, move_history, guess1, guess2, out>>

NextBuild ==
    \/ PrepareBoardReturns
    \/ PrepareBoardIndexError

SpecBuild == InitBuild /\ [][NextBuild]_vars

(***************************************************************************)
(* Vocabulary of the properties                                            *)
(***************************************************************************)
MatchedCells == {p \in DOMAIN board : board[p].matched}

AllMatched == \A p \in DOMAIN board : board[p].matched

TotalScore == score["player1"] + score["player2"]

\* a step that completes a turn: play appends to move_history
TurnCompleted == move_history' # move_history

\* the board b with every unmatched card face down and every matched card
\* face up
TurnStart(b) == [p \in DOMAIN b |-> [b[p] EXCEPT !.flipped = b[p].matched]]

\* the 0-based position two integer lines name
PosOf(rline, cline) == <<int(rline) - 1, int(cline) - 1>>

\* everything a rejected pick must leave alone: game_data and the place
\* of play in the turn
PickState == <<board, score, turn, game_over, move_history, pc, guess1, guess2>>

(***************************************************************************)
(* Properties                                                              *)
(***************************************************************************)

\* C1: in every reachable state score['player1'] + score['player2'] is the
\* number of matched pairs on the board, that is half the number of cells
\* with matched = True, and it never exceeds rows*columns/2.
C1_ScoreIsMatchedPairs ==
    /\ 2 * TotalScore = Cardinality(MatchedCells)
    /\ 2 * TotalScore <= rows * columns

\* both players have scored a pair
C1_Witness ==
    /\ score["player1"] = 1
    /\ score["player2"] = 1
    /\ Cardinality(MatchedCells) = 4

\* C2: game_over is true exactly when every card is matched; it is set by
\* the turn that matches the last pair, so no pick is awaited and no turn is
\* being resolved once all cards are matched; and the only step that sets
\* it is the resolution of a matching turn that leaves every card matched
\* (no rejected pick sets it).
C2_GameOverIffAllMatched ==
    /\ [](game_over <=> AllMatched)
    /\ [](game_over => pc = "done")
    /\ [][game_over' # game_over =>
            /\ pc = "resolve"
            /\ board[guess1].card = board[guess2].card
            /\ ~game_over /\ game_over'
            /\ AllMatched']_vars

\* the game has ended after a turn that did not match
C2_Witness ==
    /\ game_over
    /\ AllMatched
    /\ Len(move_history) = 3

\* C3: once game_over is true no step changes anything: game_over stays
\* true, board, scores, turn and move_history stay as they are, play is out
\* of its loop and no pick is answered any more.
C3_NothingAfterGameOver ==
    [][game_over => game_over' /\ pc' = "done" /\ UNCHANGED vars]_vars

\* a game that ended after two matching turns
C3_Witness ==
    /\ game_over
    /\ pc = "done"
    /\ Len(move_history) = 2
    /\ TotalScore = 2

\* C4: a step that completes a turn gives the turn to the other player,
\* match or no match, unless it ends the game, and then the turn is left as
\* it is; no other step (accepted or rejected pick) changes the turn.
C4_TurnAlternates ==
    [][/\ (TurnCompleted /\ ~game_over' => turn' \in Players \ {turn})
       /\ (TurnCompleted /\ game_over' => turn' = turn)
       /\ (~TurnCompleted => turn' = turn)]_vars

\* player1 matched in the first turn and the turn went to player2
C4_Witness ==
    /\ Len(move_history) = 1
    /\ score["player1"] = 1
    /\ turn = "player2"
    /\ pc = "guess1"

\* C5: when a turn is resolved on two cards of equal value, both cards are
\* matched and face up afterwards, the player whose turn it was has one
\* point more and the other player's score is unchanged.
C5_MatchResolution ==
    [][pc = "resolve" /\ board[guess1].card = board[guess2].card =>
            /\ board'[guess1].matched /\ board'[guess1].flipped
            /\ board'[guess2].matched /\ board'[guess2].flipped
            /\ score'[turn] = score[turn] + 1
            /\ \A q \in Players \ {turn} : score'[q] = score[q]]_vars

\* player2 has just matched a pair
C5_Witness ==
    /\ out = MsgMatch
    /\ score["player2"] = 1
    /\ board[guess1].matched
    /\ board[guess2].matched

\* C6: when a turn is resolved on two cards of different values, both cards
\* are face down and unmatched afterwards, the board is again the board the
\* turn started with, and both scores are unchanged.  The board a turn
\* starts with has every unmatched card face down (first conjunct) and the
\* picks turn cards up without touching anything else (second conjunct), so
\* TurnStart(board) is, all through a turn, the board at its start.
C6_NoMatchResolution ==
    /\ [](pc = "guess1" => board = TurnStart(board))
    /\ [][AwaitingPick => TurnStart(board') = TurnStart(board)]_vars
    /\ [][pc = "resolve" /\ board[guess1].card # board[guess2].card =>
            /\ ~board'[guess1].flipped /\ ~board'[guess1].matched
            /\ ~board'[guess2].flipped /\ ~board'[guess2].matched
            /\ board' = TurnStart(board)
            /\ score' = score]_vars

\* the second turn in a row on two different cards has just been resolved
C6_Witness ==
    /\ out = MsgNoMatch
    /\ Len(move_history) = 2
    /\ pc = "guess1"
    /\ ~board[guess1].flipped
    /\ ~board[guess2].flipped

\* the step answers a pick of a position of the grid whose card is face up
RevealedPickStep ==
    /\ AwaitingPick
    /\ \E rline, cline \in InputLines :
          /\ IsInt(rline) /\ IsInt(cline)
          /\ InRange(int(rline) - 1, int(cline) - 1)
          /\ board[PosOf(rline, cline)].flipped
          /\ Pick(rline, cline)

\* C7: a pick of a position of the grid whose card is face up, matched or
\* not, is rejected: board, scores, turn, game_over, move_history, the pick
\* awaited and the recorded guesses are unchanged and the program asks again
\* ("Card already revealed").
C7_RevealedPickRejected ==
    [][RevealedPickStep => UNCHANGED PickState /\ out' = MsgRevealed]_vars

\* a first pick of a matched card has just been rejected
C7_Witness ==
    /\ pc = "guess1"
    /\ out = MsgRevealed
    /\ MatchedCells # {}

\* the step answers a second pick that names position1 again
DuplicatePickStep ==
    /\ pc = "guess2"
    /\ \E rline, cline \in InputLines :
          /\ IsInt(rline) /\ IsInt(cline)
          /\ PosOf(rline, cline) = guess1
          /\ Pick(rline, cline)

\* C8 as stated: when position1 is supplied again as the second pick and
\* rejected, neither reveal of the turn has mutated the board (every
\* unmatched card is face down), and the two positions of every recorded
\* turn are distinct.
C8_Original ==
    /\ (pc = "guess2" /\ out = MsgRevealed /\ MatchedCells = {}
            => board = TurnStart(board))
    /\ \A i \in DOMAIN move_history : move_history[i][1] # move_history[i][2]

\* C8 as amended: at the second pick position1 has already been turned face
\* up by the first pick; supplying position1 again is rejected as an
\* already revealed card and that rejection changes nothing (position1
\* stays face up, nothing else is revealed, the second pick is awaited
\* again); the two positions of every recorded turn are distinct.
C8_DuplicatePickRejected ==
    /\ [](pc \in {"guess2", "resolve"} => guess1 \in Positions /\ board[guess1].flipped)
    /\ [][DuplicatePickStep => UNCHANGED PickState /\ out' = MsgRevealed]_vars
    /\ [](\A i \in DOMAIN move_history : move_history[i][1] # move_history[i][2])

\* position1 has just been rejected as the second pick: it is the only card
\* face up
C8_Witness ==
    /\ pc = "guess2"
    /\ out = MsgRevealed
    /\ \A p \in Positions : board[p].flipped <=> p = guess1

\* the step answers a pick outside the grid or a line that is no integer
BadInputStep ==
    /\ AwaitingPick
    /\ \E rline, cline \in InputLines :
          /\ \/ ~IsInt(rline)
             \/ ~IsInt(cline)
             \/ ~InRange(int(rline) - 1, int(cline) - 1)
          /\ Pick(rline, cline)

\* C9: a pick outside the grid, or a line that is no integer, changes
\* neither board, scores, turn, game_over nor move_history, and the same
\* pick is awaited again.
C9_BadInputRejected ==
    [][BadInputStep => UNCHANGED PickState /\ out' \in {MsgIntegers, MsgInvalid}]_vars

\* a second pick outside the grid has just been rejected, in the second turn
C9_Witness ==
    /\ pc = "guess2"
    /\ out = MsgInvalid
    /\ Len(move_history) = 1

\* C10: for every shuffle and in every reachable state the board has one
\* card on every cell of the rows x columns grid, every symbol on it is on
\* exactly two cells, and no step changes the value of a card.
C10_PairingInvariant ==
    /\ [](/\ DOMAIN board = Positions
          /\ \A p \in Positions :
                Cardinality({q \in Positions : board[q].card = board[p].card}) = 2)
    /\ [][\A p \in Positions : board'[p].card = board[p].card]_vars

\* a shuffle that put the two B on a diagonal, after they were matched
C10_Witness ==
    /\ board[<<0, 0>>].card = "B"
    /\ board[<<1, 1>>].card = "B"
    /\ board[<<0, 0>>].matched
    /\ board[<<1, 1>>].matched

\* every matched card of the board b is face up
MatchedAreFlipped(b) == \A p \in DOMAIN b : b[p].matched => b[p].flipped

\* C11: in every reachable state every card with matched = True has
\* flipped = True: between turns, between the two picks, and also on the
\* board as match leaves it in the middle of a resolution, before
\* update_score or flip_back_cards run.
C11_MatchedImpliesFlipped ==
    /\ MatchedAreFlipped(board)
    /\ pc = "resolve" => MatchedAreFlipped(match(board, guess1, guess2).board)

\* between the two picks of the turn that follows a match
C11_Witness ==
    /\ pc = "guess2"
    /\ out = MsgAccepted
    /\ Cardinality(MatchedCells) = 2
    /\ ~board[guess1].matched

\* the position an accepted pick has just stored
AcceptedPosition == IF pc = "guess1" THEN guess1' ELSE guess2'

\* C12: a card that is matched stays matched and face up over every step,
\* and a step that accepts a pick never accepts the position of a matched
\* card.
C12_MatchedIsPermanent ==
    [][/\ \A p \in Positions :
            board[p].matched => board'[p].matched /\ board'[p].flipped
       /\ (AwaitingPick /\ pc' # pc) => ~board[AcceptedPosition].matched]_vars

\* a pick has been rejected in the turn after a match, the matched pair is
\* still matched and face up
C12_Witness ==
    /\ pc = "guess2"
    /\ out = MsgRevealed
    /\ Cardinality(MatchedCells) = 2
    /\ \A p \in MatchedCells : board[p].flipped

\* the two cards of the i-th recorded turn carry the same value
TurnMatched(i) == board[move_history[i][1]].card = board[move_history[i][2]].card

C16_InitialState ==
    guess1 = NoGuess =>
        /\ \A p \in Positions : ~board[p].flipped /\ ~board[p].matched
        /\ score = [p \in Players |-> 0]
        /\ turn = "player1"
        /\ game_over = FALSE
        /\ move_history = <<>>

\* the game as init_game built it, with a shuffle that put a B first, at
\* the first prompt of play
C16_Witness ==
    /\ guess1 = NoGuess
    /\ out = MsgNone
    /\ board[<<0, 0>>].card = "B"

\* C17: scores are never negative, no step lowers a score, and a step
\* raises at most one player's score, by at most 1.
C17_ScoresMonotone ==
    /\ [](\A p \in Players : score[p] >= 0)
    /\ [][/\ \A p \in Players : score[p] <= score'[p] /\ score'[p] <= score[p] + 1
          /\ Cardinality({p \in Players : score'[p] # score[p]}) <= 1]_vars

\* player2 scored in the second turn, player1 has nothing
C17_Witness ==
    /\ score["player1"] = 0
    /\ score["player2"] = 1
    /\ Len(move_history) = 2

\* C18: when a resolution is about to call flip_back_cards (match returned
\* False) both picked cards are unmatched on the board match left, so no
\* matched card is ever turned face down.
C18_FlipBackOnlyUnmatched ==
    pc = "resolve" =>
        LET m == match(board, guess1, guess2)
        IN ~m.ret => ~m.board[guess1].matched /\ ~m.board[guess2].matched

\* flip_back_cards is about to run on two different cards
C18_Witness ==
    /\ pc = "resolve"
    /\ ~match(board, guess1, guess2).ret
    /\ board[guess1].flipped
    /\ board[guess2].flipped

\* the unmatched cards that are face up
FaceUpUnmatched == {p \in Positions : board[p].flipped /\ ~board[p].matched}

\* C19: whenever the first pick of a turn is awaited, and when the game is
\* over, flipped = matched on every cell; in every state at most two
\* unmatched cards are face up.
C19_CleanBoardBetweenTurns ==
    /\ pc \in {"guess1", "done"} =>
            \A p \in Positions : board[p].flipped = board[p].matched
    /\ Cardinality(FaceUpUnmatched) <= 2

\* the first pick of the third turn is awaited after two turns without a
\* match, while the game goes on
C19_Witness ==
    /\ pc = "guess1"
    /\ Len(move_history) = 2
    /\ MatchedCells = {}
    /\ FaceUpUnmatched = {}

\* the cards that are face down
Hidden == {p \in Positions : ~board[p].flipped}

\* some pair of lines makes get_valid_card return
SomePickAccepted ==
    \E rline, cline \in InputLines : get_valid_card(board, rline, cline).returned

\* C20: whenever game_over is False and a pick is awaited, get_valid_card
\* accepts at least one position of the grid: an even number of at least 2
\* cards is face down when the first pick is awaited, at least 1 when the
\* second pick is awaited.
C20_PickAlwaysPossible ==
    /\ (~game_over /\ pc = "guess1") =>
            /\ Cardinality(Hidden) >= 2
            /\ Cardinality(Hidden) % 2 = 0
            /\ SomePickAccepted
    /\ (~game_over /\ pc = "guess2") =>
            /\ Cardinality(Hidden) >= 1
            /\ SomePickAccepted

\* the second pick of the last turn is awaited: one card is left face down
C20_Witness ==
    /\ pc = "guess2"
    /\ ~game_over
    /\ Cardinality(Hidden) = 1
    /\ Cardinality(MatchedCells) = 2

\* the call of prepare_board has ended without returning a board
ConstructionFailed == call.status # "returned" /\ board = NoBoard

\* C14: once the call of prepare_board has ended, if rows*columns is odd
\* the construction has failed and no board was returned.
C14_OddSizeFails ==
    (call.status # "called" /\ (call.rows * call.columns) % 2 = 1)
        => ConstructionFailed

\* C15: once the call of prepare_board has ended, if the number of cards
\* supplied differs from rows*columns, fewer or more, the construction has
\* failed and no board was returned.
C15_CountMismatchFails ==
    (call.status # "called" /\ Len(call.cards) # call.rows * call.columns)
        => ConstructionFailed

====
